---- MODULE Spec2Model ----
(***************************************************************************)
(* Job lifecycle of the Tardis download service: the job store             *)
(* (app/database.py), the background worker (app/downloader.py), the       *)
(* Telegram notifier (app/telegram_notifier.py) and the HTTP handlers      *)
(* (main.py).  One action per awaited step of a handler or of the worker.  *)
(***************************************************************************)
EXTENDS Integers, Sequences, FiniteSets, TLC

\* ------------------------------------------------------------------ bounds
\* Spec: number of POST /download requests, and the largest value of
\* datetime.utcnow() (the clock starts at 1).
MaxJobs == 1
MaxClock == 2
\* SpecLoop, SpecAuth: number of POST /download requests served by the one
\* event loop.
MaxConcurrent == 2
\* SpecQuery: number of jobs in the table that GET /jobs lists.
MaxListed == 3
\* SpecRender: the longest list of symbols a request carries.
MaxSymbols == 4
\* SpecRender: the longest text of an exception raised by the transfer.
MaxErrorLen == 201
MaxAbsent == 1

\* --------------------------------------------------------------- constants
\* models.JobStatus
PENDING == "pending"
RUNNING == "running"
COMPLETED == "completed"
FAILED == "failed"
CANCELLED == "cancelled"
JobStatus == {PENDING, RUNNING, COMPLETED, FAILED, CANCELLED}

\* Optional[...] values: None, or a one-element tuple holding the value.
None == << >>
Some(x) == << x >>

\* Python truthiness of an Optional[str]: None and "" are both falsy.
Truthy(s) == s # None /\ s # Some("")

\* The text c repeated n times.
RECURSIVE Repeat(_, _)
Repeat(c, n) ==
    IF n = 0 THEN ""
    ELSE LET half == Repeat(c, n \div 2) IN
         IF n % 2 = 1 THEN half \o half \o c ELSE half \o half

\* str(e) of the exceptions datasets.download can raise; "" is str(Exception()).
TransferErrors == {"", "disk full"}

\* str(e) of exceptions with a long text (a traceback, a response body): 200
\* characters and more.
LongErrors == { Repeat("e", n) : n \in 200 .. MaxErrorLen }

\* DownloadRequest.symbols of the requests whose symbols do not matter (the
\* example of the request schema).
ExampleSymbols == << "BTC-USDT", "ETH-USDT" >>

\* DownloadRequest.symbols, a List[str]: the lists S1, ..., Sn.
SymbolLists == { [ i \in 1 .. n |-> "S" \o ToString(i) ] : n \in 0 .. MaxSymbols }
\* Settings.default_output_path.
default_output_path == "./datasets"

\* DownloadRequest.output_path, an Optional[str]: absent, empty, or a path.
RequestPaths == {None, Some(""), Some("/data/custom")}

\* str(e) of a failed session (commit/flush raised).
DbError == "database is locked"
\* str(e) of Path.mkdir failing.
MkdirError == "permission denied"
\* str(e) of an exception of bot.send_message that is not a TelegramError.
SendError == "event loop is closed"

\* notify_job_failed: the longest error text a notification carries in full.
ErrorLimit == 200

\* Outcomes of TelegramNotifier.send_message: True, False (TelegramError caught
\* and logged), or an exception that is no TelegramError and so is not caught.
SendOutcomes == {"sent", "telegram_error", "raised"}

VARIABLES
    jobs,        \* the download_jobs table: jobs[id] is the row with that id
    clock,       \* datetime.utcnow()
    tasks,       \* the download_data tasks added by add_task, with their locals
    response,    \* the last HTTP response a handler returned
    history,     \* history: status values committed per job id, in order
    notified,    \* history: notification attempts per job id, in order
    branches,    \* history: outcome branches of download_data entered per job id
    settings     \* config.settings, read from the environment when the service starts

vars == << jobs, clock, tasks, response, history, notified, branches, settings >>

Ids == DOMAIN jobs
Tasks == DOMAIN tasks

\* ------------------------------------------------------------ the job store
\* The fields of a request that no claim distinguishes (the example of the
\* request schema), and the caller verify_user admitted.
ExampleRequest ==
    [ exchange   |-> "binance",
      data_types |-> << "trades" >>,
      start_date |-> "2024-01-01",
      end_date   |-> "2024-01-02",
      created_by |-> "alice" ]

\* Database.create_job: the row as inserted (the arguments, status PENDING,
\* created_at default, nullable columns NULL).
NewJob(now, symbols, output_path) ==
    [ exchange      |-> ExampleRequest.exchange,
      data_types    |-> ExampleRequest.data_types,
      symbols       |-> symbols,
      start_date    |-> ExampleRequest.start_date,
      end_date      |-> ExampleRequest.end_date,
      created_by    |-> ExampleRequest.created_by,
      status        |-> PENDING,
      output_path   |-> output_path,
      created_at    |-> now,
      started_at    |-> None,
      completed_at  |-> None,
      error_message |-> None ]

\* Database.get_job: session.get, None when the id has no row.
get_job(js, job_id) ==
    IF job_id \in DOMAIN js THEN Some(js[job_id]) ELSE None

\* update_job_status with `status == JobStatus.RUNNING and` dropped from the
\* first condition: started_at is stamped by whichever update comes first.
update_job_status_any_start(js, job_id, status, error_message, now) ==
    IF job_id \notin DOMAIN js
    THEN js
    ELSE LET row == js[job_id]
             r1 == [row EXCEPT !.status = status]
             r2 == IF row.started_at = None
                   THEN [r1 EXCEPT !.started_at = Some(now)]
                   ELSE IF status \in {COMPLETED, FAILED, CANCELLED}
                        THEN [r1 EXCEPT !.completed_at = Some(now)]
                        ELSE r1
             r3 == IF Truthy(error_message)
                   THEN [r2 EXCEPT !.error_message = error_message]
                   ELSE r2
         IN  [js EXCEPT ![job_id] = r3]

\* An update_job_status whose statement has no WHERE: every row gets the status.
update_job_status_every_row(js, job_id, status, error_message, now) ==
    [ i \in DOMAIN js |-> [js[i] EXCEPT !.status = status] ]

\* An update_job_status that also clears the symbols of the row.
update_job_status_clears_symbols(js, job_id, status, error_message, now) ==
    IF job_id \notin DOMAIN js
    THEN js
    ELSE [js EXCEPT ![job_id].status = status, ![job_id].symbols = << >>]

\* An update_job_status that inserts the row it does not find.
update_job_status_upsert(js, job_id, status, error_message, now) ==
    IF job_id \notin DOMAIN js
    THEN Append(js, [NewJob(now, ExampleSymbols, default_output_path) EXCEPT !.status = status])
    ELSE js

\* Database.update_job_status, the rows after the session committed.
update_job_status(js, job_id, status, error_message, now) ==
    IF job_id \notin DOMAIN js
    THEN js
    ELSE LET row == js[job_id]
             r1 == [row EXCEPT !.status = status]
             r2 == IF status = RUNNING /\ row.started_at = None
                   THEN [r1 EXCEPT !.started_at = Some(now)]
                   ELSE IF status \in {COMPLETED, FAILED, CANCELLED}
                        THEN [r1 EXCEPT !.completed_at = Some(now)]
                        ELSE r1
             r3 == IF Truthy(error_message)
                   THEN [r2 EXCEPT !.error_message = error_message]
                   ELSE r2
         IN  [js EXCEPT ![job_id] = r3]

\* order_by(DownloadJob.created_at.desc()): the ids among `ids` in every order
\* the query may return them, rows with equal created_at coming in any order.
RECURSIVE order_by_created_at_desc(_, _)
order_by_created_at_desc(js, ids) ==
    IF ids = {} THEN { << >> }
    ELSE LET latest == { i \in ids : \A j \in ids : js[i].created_at >= js[j].created_at }
         IN  UNION { { << i >> \o rest : rest \in order_by_created_at_desc(js, ids \ {i}) } :
                     i \in latest }

\* A get_all_jobs whose query has no `.limit(limit)`.
get_all_jobs_unlimited(js, limit) ==
    order_by_created_at_desc(js, DOMAIN js)

\* Database.get_all_jobs: select ... order_by(created_at.desc()).limit(limit),
\* the ids of the rows returned, in every order the query may return them.  A
\* negative LIMIT is no limit (SQLite, the configured database_url).
get_all_jobs(js, limit) ==
    LET n == Len(js)
        k == IF limit < 0 THEN n ELSE IF limit < n THEN limit ELSE n
    IN  { SubSeq(p, 1, k) : p \in order_by_created_at_desc(js, DOMAIN js) }

\* A reading session that cancels the rows it loads.
ReadOnlyTouches(js) == [ i \in DOMAIN js |-> [js[i] EXCEPT !.status = CANCELLED] ]

\* get_job and get_all_jobs only load rows (session.get, select): the rows their
\* session has to commit are the rows it found.
ReadOnly(js) == js

\* Database.get_session: the body's writes are committed when the session
\* exits normally and rolled back (the exception re-raised) when it raises.
get_session(js, written, committed) ==
    IF committed THEN written ELSE js

\* ---------------------------------------------------------------- notifier
\* TelegramNotifier.send_message: True when sent, False when bot.send_message
\* raised a TelegramError; any other exception leaves the method.
send_message(outcome) ==
    CASE outcome = "sent"           -> [returned |-> TRUE,  value |-> TRUE]
      [] outcome = "telegram_error" -> [returned |-> TRUE,  value |-> FALSE]
      [] OTHER                      -> [returned |-> FALSE, value |-> FALSE]

\* The status a notification kind announces.
Announces(kind) ==
    CASE kind = "started"   -> RUNNING
      [] kind = "completed" -> COMPLETED
      [] kind = "failed"    -> FAILED

\* sep.join(items).
RECURSIVE join(_, _)
join(sep, items) ==
    IF items = << >> THEN ""
    ELSE IF Len(items) = 1 THEN items[1]
    ELSE items[1] \o sep \o join(sep, Tail(items))

\* symbols[:k].
Slice(items, k) == SubSeq(items, 1, IF Len(items) < k THEN Len(items) ELSE k)

\* notify_job_started: symbols_str.
notify_job_started_symbols_str(symbols) ==
    LET symbols_str == join(", ", Slice(symbols, 3)) IN
    IF Len(symbols) > 3
    THEN symbols_str \o " (+" \o ToString(Len(symbols) - 3) \o " more)"
    ELSE symbols_str

\* notify_job_completed: symbols_str.
notify_job_completed_symbols_str(symbols) ==
    LET symbols_str == join(", ", Slice(symbols, 3)) IN
    IF Len(symbols) > 3
    THEN symbols_str \o " (+" \o ToString(Len(symbols) - 3) \o " more)"
    ELSE symbols_str

\* A notify_job_failed that counts every symbol as left out.
notify_job_failed_symbols_str_all(symbols) ==
    LET symbols_str == join(", ", Slice(symbols, 3)) IN
    IF Len(symbols) > 3
    THEN symbols_str \o " (+" \o ToString(Len(symbols)) \o " more)"
    ELSE symbols_str

\* notify_job_failed: symbols_str.
notify_job_failed_symbols_str(symbols) ==
    LET symbols_str == join(", ", Slice(symbols, 3)) IN
    IF Len(symbols) > 3
    THEN symbols_str \o " (+" \o ToString(Len(symbols) - 3) \o " more)"
    ELSE symbols_str

\* A notify_job_failed that also cuts an error of exactly 200 characters.
notify_job_failed_error_msg_from_limit(error) ==
    IF Len(error) >= ErrorLimit
    THEN SubSeq(error, 1, ErrorLimit) \o "..."
    ELSE error

\* notify_job_failed: `error[:200] + "..." if len(error) > 200 else error`.
notify_job_failed_error_msg(error) ==
    IF Len(error) > ErrorLimit
    THEN SubSeq(error, 1, ErrorLimit) \o "..."
    ELSE error

\* notify_job_completed: `if duration_minutes:` puts the duration in the text,
\* so that None and 0 are both left out.
notify_job_completed_duration(duration_minutes) ==
    IF duration_minutes # None /\ duration_minutes[1] # 0
    THEN duration_minutes
    ELSE None

\* One notify_job_* call for job_id, as recorded in the history: the kind, what
\* a reader of the store sees at that moment, the symbols as the text shows
\* them, what else the text carries (the error text of a failed notification,
\* the duration of a completed one), and whether the call raised instead of
\* returning.
Attempt(job_id, kind, symbols_str, carried, outcome) ==
    [ kind    |-> kind,
      seen    |-> IF job_id \in Ids THEN jobs[job_id].status ELSE "none",
      symbols_str |-> symbols_str,
      carried |-> carried,
      raised  |-> ~send_message(outcome).returned ]

\* -------------------------------------------------------------- event loop
\* datasets.download(...) called directly in the coroutine: the event loop is
\* held until the transfer returns.
TransferOnLoop(t) == tasks[t].pc = "transfer"

\* asyncio.to_thread(datasets.download, ...): the transfer runs in a worker
\* thread, so the event loop is not held while task t waits for it.
TransferBlocksLoop(t) == FALSE

\* The event loop can run a handler or a step of a task.
LoopFree == \A t \in Tasks : ~TransferBlocksLoop(t)

\* Some transfer call has not returned yet.
InFlight == \E t \in Tasks : tasks[t].pc = "transfer"

\* add_task called twice for one submission.
add_task_twice(ts, job_id, symbols, output_path) ==
    LET task == [ job_id    |-> job_id,
                  symbols   |-> symbols,
                  output_path |-> output_path,
                  pc        |-> "scheduled",
                  job       |-> None,
                  error_msg |-> None,
                  duration  |-> None,
                  transfer  |-> << >> ]
    IN  Append(Append(ts, task), task)

\* An add_task that holds a task back while an earlier one has not ended.
add_task_one_at_a_time(ts, job_id, symbols, output_path) ==
    Append(ts, [ job_id    |-> job_id,
                 symbols   |-> symbols,
                 output_path |-> output_path,
                 pc        |-> IF \E i \in DOMAIN ts : ts[i].pc \notin {"done", "raised"}
                               THEN "queued" ELSE "scheduled",
                 job       |-> None,
                 error_msg |-> None,
                 duration  |-> None,
                 transfer  |-> << >> ])

\* BackgroundTasks.add_task(downloader.download_data, job_id=job.id, ...):
\* one task per call, not started yet.  The field transfer is history: what
\* each call of datasets.download made by the task raised (None: it returned).
add_task(ts, job_id, symbols, output_path) ==
    Append(ts, [ job_id    |-> job_id,
                 symbols   |-> symbols,
                 output_path |-> output_path,
                 pc        |-> "scheduled",
                 job       |-> None,
                 error_msg |-> None,
                 duration  |-> None,
                 transfer  |-> << >> ])

\* autoincrement primary key of download_jobs.
autoincrement(js) == Len(js) + 1

\* ------------------------------------------------------------------- Init
Init ==
    /\ jobs = << >>
    /\ clock = 1
    /\ tasks = << >>
    /\ response = [code |-> 0, job_id |-> 0, status |-> "none"]
    /\ history = << >>
    /\ notified = << >>
    /\ branches = << >>
    /\ settings = [allowed_users |-> "", api_token |-> None]

\* Time passes.
Tick ==
    /\ clock < MaxClock
    /\ clock' = clock + 1
    /\ UNCHANGED << jobs, tasks, response, history, notified, branches, settings >>

\* ----------------------------------------------------------------- main.py
\* submit_download with every path ignored in favour of the default.
output_path_default_only(requested) == default_output_path

\* submit_download: `request.output_path or settings.default_output_path`.
output_path_or_default(requested) ==
    IF Truthy(requested) THEN requested[1] ELSE default_output_path

\* POST /download: create_job committed, the task added, 202 returned.
SubmitAccepted(limit, requested, symbols) ==
    /\ LoopFree
    /\ Len(jobs) < limit
    /\ LET id == autoincrement(jobs)
           output_path == output_path_or_default(requested)
       IN
        /\ jobs' = get_session(jobs, Append(jobs, NewJob(clock, symbols, output_path)), TRUE)
        /\ tasks' = add_task(tasks, id, symbols, output_path)
        /\ history' = Append(history, << PENDING >>)
        /\ notified' = Append(notified, << >>)
        /\ branches' = Append(branches, {})
        /\ response' = [code |-> 202, job_id |-> id, status |-> PENDING]
    /\ UNCHANGED << clock, settings >>

\* POST /download: create_job raised, the session rolled back, 500 returned.
SubmitFailed(limit, requested) ==
    /\ LoopFree
    /\ Len(jobs) < limit
    /\ jobs' = get_session(jobs,
                   Append(jobs, NewJob(clock, ExampleSymbols, output_path_or_default(requested))),
                   FALSE)
    /\ response' = [code |-> 500, job_id |-> 0, status |-> "none"]
    /\ UNCHANGED << clock, tasks, history, notified, branches, settings >>

\* POST /download: create_job committed its row, then a statement after it in
\* the try block raised (add_task, the log line or the response): `except
\* Exception` answers 500; the row stays and no task was added.
SubmitNotScheduled(limit, requested) ==
    /\ LoopFree
    /\ Len(jobs) < limit
    /\ jobs' = get_session(jobs,
                   Append(jobs, NewJob(clock, ExampleSymbols, output_path_or_default(requested))),
                   TRUE)
    /\ history' = Append(history, << PENDING >>)
    /\ notified' = Append(notified, << >>)
    /\ branches' = Append(branches, {})
    /\ response' = [code |-> 500, job_id |-> 0, status |-> "none"]
    /\ UNCHANGED << clock, tasks, settings >>

\* GET /jobs/{job_id}/status: the status of the row, or 404.
GetJobStatus(job_id) ==
    /\ LoopFree
    /\ LET found == get_job(jobs, job_id) IN
        response' = IF found = None
                    THEN [code |-> 404, job_id |-> job_id, status |-> "none"]
                    ELSE [code |-> 200, job_id |-> job_id, status |-> found[1].status]
    /\ jobs' = get_session(jobs, ReadOnly(jobs), TRUE)
    /\ UNCHANGED << clock, tasks, history, notified, branches, settings >>

\* JobResponse(id=job.id, status=..., ...): the projection of one row.
JobResponse(job_id, row) == [id |-> job_id] @@ row

\* GET /jobs/{job_id}: the projection of the row, or 404.
GetJob(job_id) ==
    /\ LoopFree
    /\ LET found == get_job(jobs, job_id) IN
        response' = IF found = None
                    THEN [code |-> 404, job_id |-> job_id, status |-> "none"]
                    ELSE [code |-> 200, job |-> JobResponse(job_id, found[1])]
    /\ jobs' = get_session(jobs, ReadOnly(jobs), TRUE)
    /\ UNCHANGED << clock, tasks, history, notified, branches, settings >>

\* GET /jobs?limit=...: the projections of the rows get_all_jobs returned, and
\* their number.
ListJobs(limit) ==
    /\ LoopFree
    /\ \E found \in get_all_jobs(jobs, limit) :
        LET job_responses == [ i \in DOMAIN found |-> JobResponse(found[i], jobs[found[i]]) ]
        IN  response' = [code |-> 200, jobs |-> job_responses, total |-> Len(job_responses)]
    /\ jobs' = get_session(jobs, ReadOnly(jobs), TRUE)
    /\ UNCHANGED << clock, tasks, history, notified, branches, settings >>

\* A GET handler whose session raised: rolled back, 500 returned.
QueryFailed ==
    /\ LoopFree
    /\ jobs' = get_session(jobs, ReadOnly(jobs), FALSE)
    /\ response' = [code |-> 500, job_id |-> 0, status |-> "none"]
    /\ UNCHANGED << clock, tasks, history, notified, branches, settings >>

\* str.split(sep) for a separator of one character.
RECURSIVE split(_, _)
split(s, sep) ==
    LET at == { i \in 1 .. Len(s) : SubSeq(s, i, i) = sep } IN
    IF at = {} THEN << s >>
    ELSE LET i == CHOOSE k \in at : \A l \in at : k <= l
         IN  << SubSeq(s, 1, i - 1) >> \o split(SubSeq(s, i + 1, Len(s)), sep)

\* str.strip(), for blanks.
RECURSIVE strip(_)
strip(s) ==
    IF Len(s) > 0 /\ SubSeq(s, 1, 1) = " "
    THEN strip(SubSeq(s, 2, Len(s)))
    ELSE IF Len(s) > 0 /\ SubSeq(s, Len(s), Len(s)) = " "
         THEN strip(SubSeq(s, 1, Len(s) - 1))
         ELSE s

\* An is_user_allowed that lets everybody in.
is_user_allowed_all(cfg, username) == TRUE

\* Settings.is_user_allowed.
is_user_allowed(cfg, username) ==
    IF cfg.allowed_users = ""
    THEN TRUE
    ELSE LET parts == split(cfg.allowed_users, ",")
             allowed == { strip(parts[i]) : i \in DOMAIN parts }
         IN  username \in allowed

\* verify_user: the status of the HTTPException it raises, 0 when it returns.
verify_user(cfg, x_username) ==
    IF ~Truthy(x_username) THEN 400
    ELSE IF ~is_user_allowed(cfg, x_username[1]) THEN 403
    ELSE 0

\* verify_api_token: the status of the HTTPException it raises, 0 when it returns.
verify_api_token(cfg, x_api_token) ==
    IF Truthy(cfg.api_token) /\ (~Truthy(x_api_token) \/ x_api_token # cfg.api_token)
    THEN 401
    ELSE 0

\* Depends(verify_user), then Depends(verify_api_token), in the order of the
\* handler's parameters: the status of the first exception, 0 when both return.
Depends(cfg, headers) ==
    IF verify_user(cfg, headers.x_username) # 0
    THEN verify_user(cfg, headers.x_username)
    ELSE verify_api_token(cfg, headers.x_api_token)

\* A request to any of the four endpoints whose dependencies raise: the handler
\* is not called.
Rejected(headers) ==
    /\ LoopFree
    /\ Depends(settings, headers) # 0
    /\ response' = [code |-> Depends(settings, headers), job_id |-> 0, status |-> "none"]
    /\ UNCHANGED << jobs, clock, tasks, history, notified, branches, settings >>

\* POST /download from a caller with these headers.
PostDownload(headers) ==
    /\ Depends(settings, headers) = 0
    /\ \/ SubmitAccepted(MaxConcurrent, None, ExampleSymbols)
       \/ SubmitFailed(MaxConcurrent, None)

\* GET /jobs, /jobs/{job_id} or /jobs/{job_id}/status from a caller with these
\* headers.
GetJobs(headers) ==
    /\ Depends(settings, headers) = 0
    /\ \/ \E job_id \in {1, Len(jobs) + 1} : GetJobStatus(job_id)
       \/ \E job_id \in {1, Len(jobs) + 1} : GetJob(job_id)
       \/ ListJobs(50)
       \/ QueryFailed

\* ------------------------------------------------------- app/downloader.py
\* Task t moves to the next statement of download_data.
Goto(t, next) == [tasks EXCEPT ![t].pc = next]

\* A handler that retries: the exception sends task t back to the first
\* statement of the try block.
ExceptRetry(t, e) == [tasks EXCEPT ![t].pc = "set_running", ![t].error_msg = Some(e)]

\* `except Exception as e: error_msg = str(e)`: an exception raised inside the
\* try block takes task t to the handler, which first updates the status.
Except(t, e) == [tasks EXCEPT ![t].pc = "set_failed", ![t].error_msg = Some(e)]

\* The status values committed for job_id, after a session committed rows js.
Committed(h, js, job_id) ==
    IF job_id \in DOMAIN js /\ job_id \in DOMAIN h
    THEN [h EXCEPT ![job_id] = Append(@, js[job_id].status)]
    ELSE h

\* The attempts made for job_id, after one more notify_job_* call.
Notify(n, job_id, attempt) ==
    IF job_id \in DOMAIN n THEN [n EXCEPT ![job_id] = Append(@, attempt)] ELSE n

\* The outcome branches entered for job_id, after entering branch b.
Enter(bs, job_id, b) ==
    IF job_id \in DOMAIN bs THEN [bs EXCEPT ![job_id] = @ \cup {b}] ELSE bs

\* `if job.started_at: duration = (utcnow() - job.started_at) / 60`, on the row
\* read at the first line of download_data.
Duration(row, now) ==
    IF row # None /\ row[1].started_at # None
    THEN Some(now - row[1].started_at[1])
    ELSE None

\* A download_data that goes on without a row.
NotFoundIgnored(job) == FALSE

\* `if not job:` on the row download_data read.
NotFound(job) == job = None

\* job = await db.get_job(job_id); return when there is no such row.
WorkerGetJob(t) ==
    /\ t \in Tasks
    /\ tasks[t].pc = "scheduled"
    /\ LoopFree
    /\ LET found == get_job(jobs, tasks[t].job_id) IN
        tasks' = [tasks EXCEPT ![t].job = found,
                               ![t].pc = IF NotFound(found) THEN "done" ELSE "set_running"]
    /\ UNCHANGED << jobs, clock, response, history, notified, branches, settings >>

\* db.get_job raised: the exception leaves download_data (it is outside the try).
WorkerGetJobFails(t) ==
    /\ t \in Tasks
    /\ tasks[t].pc = "scheduled"
    /\ LoopFree
    /\ tasks' = Goto(t, "raised")
    /\ UNCHANGED << jobs, clock, response, history, notified, branches, settings >>

\* db.update_job_status(job_id, JobStatus.RUNNING) without `await`: the
\* coroutine is never run and the task goes on to the notification.
WorkerSetRunningNotAwaited(t) ==
    /\ t \in Tasks
    /\ tasks[t].pc = "set_running"
    /\ LoopFree
    /\ tasks' = Goto(t, "notify_started")
    /\ UNCHANGED << jobs, clock, response, history, notified, branches, settings >>

\* await db.update_job_status(job_id, JobStatus.RUNNING), committed.
WorkerSetRunning(t) ==
    /\ t \in Tasks
    /\ tasks[t].pc = "set_running"
    /\ LoopFree
    /\ LET id == tasks[t].job_id IN
        /\ jobs' = get_session(jobs, update_job_status(jobs, id, RUNNING, None, clock), TRUE)
        /\ history' = Committed(history, jobs', id)
    /\ tasks' = Goto(t, "notify_started")
    /\ UNCHANGED << clock, response, notified, branches, settings >>

\* The RUNNING update raised and was rolled back.
WorkerSetRunningFails(t) ==
    /\ t \in Tasks
    /\ tasks[t].pc = "set_running"
    /\ LoopFree
    /\ LET id == tasks[t].job_id IN
        /\ jobs' = get_session(jobs, update_job_status(jobs, id, RUNNING, None, clock), FALSE)
        /\ branches' = Enter(branches, id, "failure")
    /\ tasks' = Except(t, DbError)
    /\ UNCHANGED << clock, response, history, notified, settings >>

\* await notifier.notify_job_started(...).
WorkerNotifyStarted(t, outcome) ==
    /\ t \in Tasks
    /\ tasks[t].pc = "notify_started"
    /\ LoopFree
    /\ LET id == tasks[t].job_id IN
        /\ notified' = Notify(notified, id, Attempt(id, "started",
                                         notify_job_started_symbols_str(tasks[t].symbols),
                                         None, outcome))
        /\ IF send_message(outcome).returned
           THEN /\ tasks' = Goto(t, "mkdir")
                /\ UNCHANGED branches
           ELSE /\ tasks' = Except(t, SendError)
                /\ branches' = Enter(branches, id, "failure")
    /\ UNCHANGED << jobs, clock, response, history, settings >>

\* Path(output_path).mkdir(parents=True, exist_ok=True), then the transfer is
\* handed to a thread.
WorkerMkdir(t) ==
    /\ t \in Tasks
    /\ tasks[t].pc = "mkdir"
    /\ LoopFree
    /\ tasks' = Goto(t, "transfer")
    /\ UNCHANGED << jobs, clock, response, history, notified, branches, settings >>

\* mkdir raised.
WorkerMkdirFails(t) ==
    /\ t \in Tasks
    /\ tasks[t].pc = "mkdir"
    /\ LoopFree
    /\ tasks' = Except(t, MkdirError)
    /\ branches' = Enter(branches, tasks[t].job_id, "failure")
    /\ UNCHANGED << jobs, clock, response, history, notified, settings >>

\* datasets.download returned.
TransferReturns(t) ==
    /\ t \in Tasks
    /\ tasks[t].pc = "transfer"
    /\ tasks' = [Goto(t, "set_completed") EXCEPT ![t].transfer = Append(@, None)]
    /\ UNCHANGED << jobs, clock, response, history, notified, branches, settings >>

\* A transfer that is called again when it raised.
TransferRaisesRetried(t, e) ==
    /\ t \in Tasks
    /\ tasks[t].pc = "transfer"
    /\ tasks' = [tasks EXCEPT ![t].transfer = Append(@, Some(e))]
    /\ branches' = Enter(branches, tasks[t].job_id, "failure")
    /\ UNCHANGED << jobs, clock, response, history, notified, settings >>

\* datasets.download raised an exception whose str() is e.
TransferRaises(t, e) ==
    /\ t \in Tasks
    /\ tasks[t].pc = "transfer"
    /\ tasks' = [Except(t, e) EXCEPT ![t].transfer = Append(@, Some(e))]
    /\ branches' = Enter(branches, tasks[t].job_id, "failure")
    /\ UNCHANGED << jobs, clock, response, history, notified, settings >>

\* The duration, then await db.update_job_status(job_id, JobStatus.COMPLETED),
\* committed.
WorkerSetCompleted(t) ==
    /\ t \in Tasks
    /\ tasks[t].pc = "set_completed"
    /\ LoopFree
    /\ LET id == tasks[t].job_id IN
        /\ jobs' = get_session(jobs, update_job_status(jobs, id, COMPLETED, None, clock), TRUE)
        /\ history' = Committed(history, jobs', id)
        /\ branches' = Enter(branches, id, "success")
    /\ tasks' = [tasks EXCEPT ![t].pc = "notify_completed",
                              ![t].duration = Duration(tasks[t].job, clock)]
    /\ UNCHANGED << clock, response, notified, settings >>

\* The COMPLETED update raised and was rolled back: the handler runs.
WorkerSetCompletedFails(t) ==
    /\ t \in Tasks
    /\ tasks[t].pc = "set_completed"
    /\ LoopFree
    /\ LET id == tasks[t].job_id IN
        /\ jobs' = get_session(jobs, update_job_status(jobs, id, COMPLETED, None, clock), FALSE)
        /\ branches' = Enter(branches, id, "failure")
    /\ tasks' = [Except(t, DbError) EXCEPT ![t].duration = Duration(tasks[t].job, clock)]
    /\ UNCHANGED << clock, response, history, notified, settings >>

\* await notifier.notify_job_completed(...).
WorkerNotifyCompleted(t, outcome) ==
    /\ t \in Tasks
    /\ tasks[t].pc = "notify_completed"
    /\ LoopFree
    /\ LET id == tasks[t].job_id IN
        /\ notified' = Notify(notified, id, Attempt(id, "completed",
                                         notify_job_completed_symbols_str(tasks[t].symbols),
                                         notify_job_completed_duration(tasks[t].duration),
                                         outcome))
        /\ IF send_message(outcome).returned
           THEN /\ tasks' = Goto(t, "done")
                /\ UNCHANGED branches
           ELSE /\ tasks' = Except(t, SendError)
                /\ branches' = Enter(branches, id, "failure")
    /\ UNCHANGED << jobs, clock, response, history, settings >>

\* await db.update_job_status(job_id, JobStatus.FAILED, error_message=error_msg),
\* committed.
WorkerSetFailed(t) ==
    /\ t \in Tasks
    /\ tasks[t].pc = "set_failed"
    /\ LoopFree
    /\ LET id == tasks[t].job_id IN
        /\ jobs' = get_session(jobs,
                       update_job_status(jobs, id, FAILED, tasks[t].error_msg, clock), TRUE)
        /\ history' = Committed(history, jobs', id)
    /\ tasks' = Goto(t, "notify_failed")
    /\ UNCHANGED << clock, response, notified, branches, settings >>

\* The FAILED update raised inside the handler: the exception leaves download_data.
WorkerSetFailedFails(t) ==
    /\ t \in Tasks
    /\ tasks[t].pc = "set_failed"
    /\ LoopFree
    /\ LET id == tasks[t].job_id IN
        jobs' = get_session(jobs,
                    update_job_status(jobs, id, FAILED, tasks[t].error_msg, clock), FALSE)
    /\ tasks' = Goto(t, "raised")
    /\ UNCHANGED << clock, response, history, notified, branches, settings >>

\* await notifier.notify_job_failed(...), inside the handler.
WorkerNotifyFailed(t, outcome) ==
    /\ t \in Tasks
    /\ tasks[t].pc = "notify_failed"
    /\ LoopFree
    /\ LET id == tasks[t].job_id IN
        notified' = Notify(notified, id, Attempt(id, "failed",
                            notify_job_failed_symbols_str(tasks[t].symbols),
                            Some(notify_job_failed_error_msg(tasks[t].error_msg[1])),
                            outcome))
    /\ tasks' = Goto(t, IF send_message(outcome).returned THEN "done" ELSE "raised")
    /\ UNCHANGED << jobs, clock, response, history, branches, settings >>

\* Places in the task list (a submission adds one task).
TaskSlots == 1 .. 2 * (MaxJobs + MaxConcurrent)

\* Identifiers a caller asks about: the first job's (absent while the table is
\* empty) and the first one that is not in the table.
QueryIds == {1, Len(jobs) + 1}

\* The steps of the download_data tasks, the transfer raising one of errors.
Worker(errors) ==
    \/ \E t \in TaskSlots : WorkerGetJob(t)
    \/ \E t \in TaskSlots : WorkerGetJobFails(t)
    \/ \E t \in TaskSlots : WorkerSetRunning(t)
    \/ \E t \in TaskSlots : WorkerSetRunningFails(t)
    \/ \E t \in TaskSlots, outcome \in SendOutcomes : WorkerNotifyStarted(t, outcome)
    \/ \E t \in TaskSlots : WorkerMkdir(t)
    \/ \E t \in TaskSlots : WorkerMkdirFails(t)
    \/ \E t \in TaskSlots : TransferReturns(t)
    \/ \E t \in TaskSlots, e \in errors : TransferRaises(t, e)
    \/ \E t \in TaskSlots : WorkerSetCompleted(t)
    \/ \E t \in TaskSlots : WorkerSetCompletedFails(t)
    \/ \E t \in TaskSlots, outcome \in SendOutcomes : WorkerNotifyCompleted(t, outcome)
    \/ \E t \in TaskSlots : WorkerSetFailed(t)
    \/ \E t \in TaskSlots : WorkerSetFailedFails(t)
    \/ \E t \in TaskSlots, outcome \in SendOutcomes : WorkerNotifyFailed(t, outcome)

\* The job lifecycle, with time passing.
Next ==
    \/ Tick
    \/ SubmitAccepted(MaxJobs, None, ExampleSymbols)
    \/ SubmitFailed(MaxJobs, None)
    \/ Worker(TransferErrors)

Spec == Init /\ [][Next]_vars

\* The event loop serving several submissions (all without an output_path),
\* their tasks and status queries.
NextLoop ==
    \/ SubmitAccepted(MaxConcurrent, None, ExampleSymbols)
    \/ SubmitFailed(MaxConcurrent, None)
    \/ \E job_id \in QueryIds : GetJobStatus(job_id)
    \/ Worker(TransferErrors)

SpecLoop == Init /\ [][NextLoop]_vars

\* A step of task t other than the return of its transfer, the store accepting
\* every read and write.
Step(t) ==
    \/ WorkerGetJob(t)
    \/ WorkerSetRunning(t)
    \/ \E outcome \in SendOutcomes : WorkerNotifyStarted(t, outcome)
    \/ WorkerMkdir(t)
    \/ WorkerMkdirFails(t)
    \/ WorkerSetCompleted(t)
    \/ \E outcome \in SendOutcomes : WorkerNotifyCompleted(t, outcome)
    \/ WorkerSetFailed(t)
    \/ \E outcome \in SendOutcomes : WorkerNotifyFailed(t, outcome)

\* Submissions and their tasks while the store accepts every read and write.
NextLive ==
    \/ SubmitAccepted(MaxConcurrent, None, ExampleSymbols)
    \/ \E t \in TaskSlots : Step(t)
    \/ \E t \in TaskSlots : TransferReturns(t)
    \/ \E t \in TaskSlots, e \in TransferErrors : TransferRaises(t, e)

\* The event loop runs every task that can take a step (asyncio schedules each
\* ready coroutine); nothing makes a transfer return.
SpecLive ==
    /\ Init
    /\ [][NextLive]_vars
    /\ \A t \in TaskSlots : WF_vars(Step(t))

\* Submissions that are accepted or answered with a server error, and the
\* tasks of the accepted ones.
NextSubmit ==
    \/ SubmitAccepted(MaxConcurrent, None, ExampleSymbols)
    \/ SubmitFailed(MaxConcurrent, None)
    \/ SubmitNotScheduled(MaxConcurrent, None)
    \/ Worker(TransferErrors)

SpecSubmit == Init /\ [][NextSubmit]_vars

\* Identifiers no row has: the key of a row is 1 or more, and at most MaxJobs
\* rows are created.
AbsentIds == {0, MaxJobs + 1}

\* downloader.download_data(job_id, ...) started for an identifier that has no
\* row.
DownloadData(job_id) ==
    /\ LoopFree
    /\ job_id \notin Ids
    /\ Len(tasks) - Len(jobs) < MaxAbsent
    /\ tasks' = add_task(tasks, job_id, ExampleSymbols, default_output_path)
    /\ UNCHANGED << jobs, clock, response, history, notified, branches, settings >>

\* The status and error_message of the first and the last update_job_status
\* call that download_data makes.
StatusUpdates == { << RUNNING, None >>, << FAILED, Some("disk full") >> }

\* await db.update_job_status(job_id, status, error_message) for an identifier
\* that has no row; the call returned (code 0) with the session committed.
UpdateJobStatus(job_id, status, error_message) ==
    /\ LoopFree
    /\ job_id \notin Ids
    /\ jobs' = get_session(jobs,
                   update_job_status(jobs, job_id, status, error_message, clock), TRUE)
    /\ response' = [code |-> 0, job_id |-> job_id, status |-> status]
    /\ UNCHANGED << clock, tasks, history, notified, branches, settings >>

\* Submissions and their tasks, the store accepting every read and write and
\* every notification delivered, with worker runs and status updates for
\* identifiers that have no row.
NextAbsent ==
    \/ SubmitAccepted(MaxJobs, None, ExampleSymbols)
    \/ \E job_id \in AbsentIds : DownloadData(job_id)
    \/ \E job_id \in AbsentIds, u \in StatusUpdates : UpdateJobStatus(job_id, u[1], u[2])
    \/ \E t \in TaskSlots : WorkerGetJob(t)
    \/ \E t \in TaskSlots : WorkerSetRunning(t)
    \/ \E t \in TaskSlots : WorkerNotifyStarted(t, "sent")
    \/ \E t \in TaskSlots : WorkerMkdir(t)
    \/ \E t \in TaskSlots : TransferReturns(t)
    \/ \E t \in TaskSlots : TransferRaises(t, "disk full")
    \/ \E t \in TaskSlots : WorkerSetCompleted(t)
    \/ \E t \in TaskSlots : WorkerNotifyCompleted(t, "sent")
    \/ \E t \in TaskSlots : WorkerSetFailed(t)
    \/ \E t \in TaskSlots : WorkerNotifyFailed(t, "sent")

SpecAbsent == Init /\ [][NextAbsent]_vars

\* Submissions with symbol lists of every length or with an output_path, and
\* their tasks, the transfer raising short and long errors.
NextRender ==
    \/ \E symbols \in SymbolLists : SubmitAccepted(MaxJobs, None, symbols)
    \/ \E requested \in RequestPaths : SubmitAccepted(MaxJobs, requested, ExampleSymbols)
    \/ Worker(TransferErrors \cup LongErrors)

SpecRender == Init /\ [][NextRender]_vars

\* Settings.allowed_users and Settings.api_token as the environment may set them.
SettingsSet ==
    [ allowed_users : {"", "alice, bob", " "},
      api_token     : {None, Some(""), Some("secret")} ]

\* The X-Username and X-API-Token headers of a request (None: no such header).
Headers ==
    [ x_username  : {None, Some(""), Some("alice"), Some("bob"), Some(" bob"), Some("mallory")},
      x_api_token : {None, Some(""), Some("secret"), Some("wrong")} ]

\* The service started with any settings.
InitAuth ==
    /\ jobs = << >>
    /\ clock = 1
    /\ tasks = << >>
    /\ response = [code |-> 0, job_id |-> 0, status |-> "none"]
    /\ history = << >>
    /\ notified = << >>
    /\ branches = << >>
    /\ settings \in SettingsSet

\* Requests with any headers to the four endpoints (no task runs).
NextAuth ==
    \/ \E headers \in Headers : Rejected(headers)
    \/ \E headers \in Headers : PostDownload(headers)
    \/ \E headers \in Headers : GetJobs(headers)

SpecAuth == InitAuth /\ [][NextAuth]_vars

\* The `limit` query parameters of GET /jobs (an int, not validated).
Limits == -1 .. MaxListed + 1

\* The table filling up over time (no task runs) and the three GET handlers.
NextQuery ==
    \/ Tick
    \/ SubmitAccepted(MaxListed, None, ExampleSymbols)
    \/ SubmitFailed(MaxListed, None)
    \/ \E job_id \in QueryIds : GetJobStatus(job_id)
    \/ \E job_id \in QueryIds : GetJob(job_id)
    \/ \E limit \in Limits : ListJobs(limit)
    \/ QueryFailed

SpecQuery == Init /\ [][NextQuery]_vars

\* ============================================================= properties
Range(seq) == { seq[i] : i \in DOMAIN seq }

IsPrefix(seq, full) ==
    /\ Len(seq) <= Len(full)
    /\ \A i \in DOMAIN seq : seq[i] = full[i]

\* The download_data run t has ended: it returned, or an exception left it.
Ended(t) == tasks[t].pc \in {"done", "raised"}

\* The tasks ever added for job_id.
TasksOf(job_id) == { t \in Tasks : tasks[t].job_id = job_id }

\* Number of notification attempts of one kind made for job_id.
Attempts(job_id, kind) ==
    Cardinality({ i \in DOMAIN notified[job_id] : notified[job_id][i].kind = kind })

\* C1: the status values persisted for a job are a prefix of PENDING, RUNNING,
\* then one of COMPLETED or FAILED, and CANCELLED is never written.
C1_StatusSequence ==
    \A id \in Ids :
        /\ \/ IsPrefix(history[id], << PENDING, RUNNING, COMPLETED >>)
           \/ IsPrefix(history[id], << PENDING, RUNNING, FAILED >>)
        /\ CANCELLED \notin Range(history[id])

\* C2: a run of download_data that found its record and has ended entered
\* exactly one of the two outcome branches, the success branch or the failure
\* branch, never both and never neither.
C2_ExactlyOneBranch ==
    \A t \in Tasks :
        (Ended(t) /\ tasks[t].job # None /\ tasks[t].job_id \in Ids)
            => Cardinality(branches[tasks[t].job_id]) = 1

\* C3: for a job that reached RUNNING and whose run has ended, exactly one
\* started notification and exactly one terminal notification (completed or
\* failed, not both) were attempted.
C3_OneStartedOneTerminal ==
    \A t \in Tasks :
        LET id == tasks[t].job_id IN
        (Ended(t) /\ id \in Ids /\ RUNNING \in Range(history[id]))
            => /\ Attempts(id, "started") = 1
               /\ Attempts(id, "completed") + Attempts(id, "failed") = 1

\* C4: whenever a notification of some kind is attempted for a job, a reader of
\* the store already sees the status that kind announces.
C4_PersistedBeforeNotified ==
    \A id \in DOMAIN notified :
        \A i \in DOMAIN notified[id] :
            notified[id][i].seen = Announces(notified[id][i].kind)

\* C4 witness: a job for which all three kinds of notification were attempted.
C4_Witness ==
    \E id \in DOMAIN notified :
        { notified[id][i].kind : i \in DOMAIN notified[id] }
            = {"started", "completed", "failed"}

C6_RequestPathNotBlocked ==
    /\ InFlight =>
        /\ \A job_id \in QueryIds : ENABLED GetJobStatus(job_id)
        /\ Len(jobs) < MaxConcurrent => ENABLED SubmitAccepted(MaxConcurrent, None, ExampleSymbols)
    /\ response.code = 202 =>
        /\ response.status = PENDING
        /\ response.job_id \in Ids

\* C6 witness: the transfer of one job is blocked, and the last response is the
\* 202 of a later submission whose own task has not even started.
C6_Witness ==
    \E t1, t2 \in Tasks :
        /\ tasks[t1].pc = "transfer"
        /\ tasks[t2].pc = "scheduled"
        /\ tasks[t2].job_id > tasks[t1].job_id
        /\ response = [code |-> 202, job_id |-> tasks[t2].job_id, status |-> PENDING]

\* C7: started_at is set exactly for the jobs whose status has ever been
\* RUNNING, and completed_at exactly for the jobs whose status has reached
\* COMPLETED, FAILED or CANCELLED.
C7_TimestampsIffReached ==
    \A id \in Ids :
        /\ jobs[id].started_at # None <=> RUNNING \in Range(history[id])
        /\ jobs[id].completed_at # None
              <=> Range(history[id]) \cap {COMPLETED, FAILED, CANCELLED} # {}

\* C7 witness: a job that was RUNNING and then reached a terminal status, with
\* started_at stamped before completed_at.
C7_Witness ==
    \E id \in Ids :
        /\ RUNNING \in Range(history[id])
        /\ jobs[id].status \in {COMPLETED, FAILED}
        /\ jobs[id].started_at # None
        /\ jobs[id].completed_at # None
        /\ jobs[id].started_at[1] < jobs[id].completed_at[1]

\* C8: once started_at or completed_at of a job is non-null, no later step
\* changes its value.
C8_TimestampsSetOnce ==
    [][ \A id \in Ids :
          /\ jobs[id].started_at # None => jobs'[id].started_at = jobs[id].started_at
          /\ jobs[id].completed_at # None
                => jobs'[id].completed_at = jobs[id].completed_at ]_vars

\* C9: error_message is non-null exactly when the status is FAILED.
C9_ErrorMessageIffFailed ==
    \A id \in Ids : jobs[id].error_message # None <=> jobs[id].status = FAILED

C11_TransferFailureRecorded ==
    \A t \in Tasks : \A m \in TransferErrors \cup LongErrors :
        LET id == tasks[t].job_id
            failed == { i \in DOMAIN notified[id] : notified[id][i].kind = "failed" }
        IN  (Ended(t) /\ tasks[t].transfer = << Some(m) >>)
                => /\ jobs[id].status = FAILED
                   /\ jobs[id].error_message = Some(m)
                   /\ jobs[id].started_at # None
                   /\ jobs[id].completed_at # None
                   /\ Cardinality(failed) = 1
                   /\ \A i \in failed :
                        \/ notified[id][i].carried = Some(m)
                        \/ /\ Len(m) > 200
                           /\ notified[id][i].carried = Some(SubSeq(m, 1, 200) \o "...")

\* C12: for every job whose directory creation and transfer call succeeded, the
\* run ends with the job COMPLETED, started_at set, completed_at set and not
\* earlier than started_at, and error_message null.
C12_SuccessIsFinal ==
    \A t \in Tasks :
        LET id == tasks[t].job_id IN
        (Ended(t) /\ tasks[t].transfer = << None >>)
            => /\ jobs[id].status = COMPLETED
               /\ jobs[id].started_at # None
               /\ jobs[id].completed_at # None
               /\ jobs[id].started_at[1] <= jobs[id].completed_at[1]
               /\ jobs[id].error_message = None

\* C13 as stated: an accepted submission stores a PENDING record whose
\* output_path is the caller's value whenever the request carries one and the
\* configured default otherwise, hands the worker that same path, and no later
\* step changes the stored output_path.
C13_OutputPathAsSupplied ==
    [][ /\ \A requested \in RequestPaths :
            SubmitAccepted(MaxJobs, requested, ExampleSymbols) =>
                LET id == Len(jobs') IN
                /\ jobs'[id].status = PENDING
                /\ jobs'[id].output_path =
                      (IF requested # None THEN requested[1] ELSE "./datasets")
                /\ tasks'[Len(tasks')].job_id = id
                /\ tasks'[Len(tasks')].output_path = jobs'[id].output_path
        /\ \A id \in Ids : jobs'[id].output_path = jobs[id].output_path
        /\ \A t \in Tasks : tasks'[t].output_path = tasks[t].output_path ]_vars

\* C13 amended: an accepted submission stores a PENDING record whose output_path
\* is the caller's value when the request carries a non-empty one and the
\* configured default otherwise (also for an empty string), hands the worker
\* that same path, and no later step changes the stored output_path.
C13_OutputPathResolvedOnce ==
    [][ /\ \A requested \in RequestPaths :
            SubmitAccepted(MaxJobs, requested, ExampleSymbols) =>
                LET id == Len(jobs') IN
                /\ jobs'[id].status = PENDING
                /\ jobs'[id].output_path =
                      (IF requested \notin {None, Some("")}
                       THEN requested[1] ELSE "./datasets")
                /\ tasks'[Len(tasks')].job_id = id
                /\ tasks'[Len(tasks')].output_path = jobs'[id].output_path
        /\ \A id \in Ids : jobs'[id].output_path = jobs[id].output_path
        /\ \A t \in Tasks : tasks'[t].output_path = tasks[t].output_path ]_vars

\* C13 witness: a job submitted with its own path has run to a terminal status
\* and both the record and the task still hold that path.
C13_Witness ==
    \E t \in Tasks :
        /\ Ended(t)
        /\ tasks[t].output_path = "/data/custom"
        /\ jobs[tasks[t].job_id].output_path = "/data/custom"
        /\ jobs[tasks[t].job_id].status \in {COMPLETED, FAILED}

\* C14: a notification send that fails returns false and never raises to the
\* worker, so that a failed send leaves the run where a successful one leaves
\* it: no notify call ever raised, and no run is in the failure handler because
\* of a send.
C14_SendFailureContained ==
    /\ \A id \in DOMAIN notified :
            \A i \in DOMAIN notified[id] : ~notified[id][i].raised
    /\ \A t \in Tasks : tasks[t].error_msg # Some(SendError)

\* C15: the three GET handlers (and get_job, get_all_jobs under them) never
\* create or change a job record or a task, and a query for an identifier that
\* has no record answers 404.
C15_QueriesReadOnly ==
    [][ /\ \A job_id \in QueryIds :
            (GetJobStatus(job_id) \/ GetJob(job_id)) =>
                /\ jobs' = jobs
                /\ tasks' = tasks
                /\ job_id \notin Ids => response'.code = 404
        /\ \A limit \in Limits : ListJobs(limit) => (jobs' = jobs /\ tasks' = tasks)
        /\ QueryFailed => (jobs' = jobs /\ tasks' = tasks) ]_vars

\* C15 witness: with jobs in the table, a query for an identifier that is not
\* there was answered 404.
C15_Witness ==
    /\ Len(jobs) >= 2
    /\ response = [code |-> 404, job_id |-> Len(jobs) + 1, status |-> "none"]

Min(a, b) == IF a < b THEN a ELSE b

\* The listing `listed` holds k jobs, most recently created first, and no job
\* left out was created after one that is listed; total is their number.
Listing(resp, k) ==
    LET listed == resp.jobs IN
    /\ resp.code = 200
    /\ Len(listed) = k
    /\ resp.total = k
    /\ \A i, j \in DOMAIN listed :
            i < j => /\ listed[i].id # listed[j].id
                     /\ listed[i].created_at >= listed[j].created_at
    /\ \A i \in DOMAIN listed : JobResponse(listed[i].id, jobs[listed[i].id]) = listed[i]
    /\ \A id \in Ids \ { listed[i].id : i \in DOMAIN listed } :
            \A i \in DOMAIN listed : jobs[id].created_at <= listed[i].created_at

\* C16 as stated: for every content of the store, n jobs, and every limit, the
\* listing returns exactly min(limit, n) jobs, the most recently created ones,
\* most recent first, and total is the number returned.
C16_ListingAnyLimit ==
    [][ \A limit \in Limits :
            ListJobs(limit) => Listing(response', Min(limit, Len(jobs))) ]_vars

\* C16 amended: the same for every limit that is not negative.
C16_ListingNonNegativeLimit ==
    [][ \A limit \in Limits :
            (limit >= 0 /\ ListJobs(limit)) => Listing(response', Min(limit, Len(jobs))) ]_vars

\* C16 witness: two of three jobs are listed, the two created last, and the
\* job left out is as old as the older one listed.
C16_Witness ==
    /\ Len(jobs) = 3
    /\ response.code = 200
    /\ "jobs" \in DOMAIN response
    /\ response.total = 2
    /\ Len(response.jobs) = 2
    /\ \E id \in Ids :
        /\ \A i \in DOMAIN response.jobs : response.jobs[i].id # id
        /\ jobs[id].created_at = response.jobs[2].created_at
        /\ response.jobs[1].created_at > response.jobs[2].created_at

\* The symbols as a notification is to show them: the first min(n, 3) joined
\* by ", ", followed by " (+N more)" with N = n - 3 exactly when n > 3.
Shown(symbols) ==
    LET n == Len(symbols)
        first == [ i \in 1 .. Min(n, 3) |-> symbols[i] ]
    IN  join(", ", first) \o (IF n > 3 THEN " (+" \o ToString(n - 3) \o " more)" ELSE "")

\* C17: in each of the three kinds of notification, a list of n symbols is
\* shown as its first min(n, 3) symbols joined by ", ", followed by
\* " (+N more)" with N = n - 3 exactly when n > 3.
C17_SymbolsShown ==
    \A t \in Tasks :
        LET id == tasks[t].job_id IN
        \A i \in DOMAIN notified[id] :
            notified[id][i].symbols_str = Shown(tasks[t].symbols)

\* C17 witness: a job with four symbols for which all three kinds were
\* attempted, each showing three symbols and "(+1 more)".
C17_Witness ==
    \E t \in Tasks :
        LET id == tasks[t].job_id IN
        /\ Len(tasks[t].symbols) = 4
        /\ { notified[id][i].kind : i \in DOMAIN notified[id] }
              = {"started", "completed", "failed"}
        /\ \A i \in DOMAIN notified[id] :
              notified[id][i].symbols_str = "S1, S2, S3 (+1 more)"

\* C18: a failed notification shows an error text longer than 200 characters
\* as its first 200 characters followed by "...", and an error text of at most
\* 200 characters (200 included) unmodified.
C18_ErrorTruncated ==
    \A t \in Tasks :
        LET id == tasks[t].job_id IN
        \A i \in DOMAIN notified[id] :
            notified[id][i].kind = "failed" =>
                LET error == tasks[t].error_msg[1]
                    shown == notified[id][i].carried[1]
                IN  /\ Len(error) > 200 =>
                        /\ Len(shown) = 203
                        /\ SubSeq(shown, 1, 200) = SubSeq(error, 1, 200)
                        /\ SubSeq(shown, 201, 203) = "..."
                    /\ Len(error) <= 200 => shown = error

\* C18 witness: a job failed with an error of 201 characters and the failed
\* notification shows 200 of them and "...".
C18_Witness ==
    \E t \in Tasks :
        LET id == tasks[t].job_id IN
        /\ tasks[t].error_msg = Some(Repeat("e", 201))
        /\ \E i \in DOMAIN notified[id] :
                /\ notified[id][i].kind = "failed"
                /\ notified[id][i].carried = Some(Repeat("e", 200) \o "...")

\* C20: a completed notification carries a duration whenever the stored record
\* of the job has a non-null started_at; the duration is left out only when the
\* stored started_at is null.
C20_DurationCarried ==
    \A id \in DOMAIN notified :
        \A i \in DOMAIN notified[id] :
            notified[id][i].kind = "completed" =>
                (notified[id][i].carried # None <=> jobs[id].started_at # None)

\* The request carries no identity.
LacksIdentity(headers) == headers.x_username \in {None, Some("")}

\* An allow-list is configured and the identity is none of its entries.
NotListed(headers) ==
    /\ ~LacksIdentity(headers)
    /\ settings.allowed_users # ""
    /\ LET parts == split(settings.allowed_users, ",") IN
        \A i \in DOMAIN parts : strip(parts[i]) # headers.x_username[1]

\* A token is configured and the request carries none, or another one.
TokenMismatch(headers) ==
    /\ settings.api_token \notin {None, Some("")}
    /\ headers.x_api_token # settings.api_token

\* C19: a request that lacks the identity header, carries an identity that is
\* not in the configured allow-list, or lacks the matching token while a token
\* is configured, is answered 400, 403 or 401 (the code of a check it fails)
\* with no job data, creates no record and schedules no task; and while no
\* allow-list is configured every non-empty identity passes the identity check.
C19_RejectedRequestsDoNothing ==
    [][ /\ \A headers \in Headers :
            ( /\ Rejected(headers) \/ PostDownload(headers) \/ GetJobs(headers)
              /\ LacksIdentity(headers) \/ NotListed(headers) \/ TokenMismatch(headers) )
            => /\ jobs' = jobs
               /\ tasks' = tasks
               /\ response'.job_id = 0
               /\ response'.status = "none"
               /\ \/ response'.code = 400 /\ LacksIdentity(headers)
                  \/ response'.code = 403 /\ NotListed(headers)
                  \/ response'.code = 401 /\ TokenMismatch(headers)
        /\ \A headers \in Headers :
            (settings.allowed_users = "" /\ ~LacksIdentity(headers))
                => verify_user(settings, headers.x_username) = 0 ]_vars

\* C19 witness: with a job in the table and an allow-list configured, a request
\* from an identity that is not listed was just answered 403.
C19_Witness ==
    /\ Len(jobs) >= 1
    /\ settings.allowed_users = "alice, bob"
    /\ response = [code |-> 403, job_id |-> 0, status |-> "none"]

\* C21: once a status update of a run has failed to persist, the run writes
\* nothing more: the record of its job stays as it was when the update failed.
C21_FailedUpdateIsFatal ==
    [][ \A t \in Tasks :
            (tasks[t].error_msg = Some(DbError) /\ tasks[t].job_id \in Ids)
                => jobs'[tasks[t].job_id] = jobs[tasks[t].job_id] ]_vars

\* C22: with the store accepting writes and the tasks scheduled fairly, every
\* job whose transfer call has returned or raised eventually has a terminal
\* status with its run ended without raising; and as long as the transfer call
\* of a job has not returned the job stays RUNNING.
C22_EveryRunEnds ==
    /\ \A t \in TaskSlots :
            (t \in Tasks /\ tasks[t].transfer # << >>)
                ~> (/\ t \in Tasks
                    /\ tasks[t].pc = "done"
                    /\ jobs[tasks[t].job_id].status \in {COMPLETED, FAILED})
    /\ [](\A t \in Tasks :
            tasks[t].pc = "transfer" => jobs[tasks[t].job_id].status = RUNNING)

\* C23: a run of download_data for an identifier that has no row ends at its
\* first step: that step leaves the store, the notifications and the committed
\* statuses as they were, creates no row and calls no transfer, and the run
\* takes no step after it.
C23_AbsentJobRunEnds ==
    [][ \A t \in Tasks :
            tasks[t].job_id \notin Ids =>
                /\ tasks[t].pc # "scheduled" => tasks'[t] = tasks[t]
                /\ tasks'[t] # tasks[t] =>
                        /\ tasks'[t].pc = "done"
                        /\ tasks'[t].transfer = << >>
                        /\ jobs' = jobs
                        /\ notified' = notified
                        /\ history' = history ]_vars

\* C23 witness: beside a job that is running, a run for an identifier with no
\* row has found nothing and ended.
C23_Witness ==
    \E t \in Tasks :
        /\ tasks[t].job_id \notin Ids
        /\ tasks[t].pc = "done"
        /\ tasks[t].job = None
        /\ \E job_id \in Ids : jobs[job_id].status = RUNNING

\* C24: update_job_status for an identifier that has no row returns without
\* raising, creates no row and leaves every row as it was.
C24_UpdateOfAbsentIsNoOp ==
    [][ \A job_id \in AbsentIds, u \in StatusUpdates :
            /\ job_id \notin Ids =>
                    update_job_status(jobs, job_id, u[1], u[2], clock) = jobs
            /\ UpdateJobStatus(job_id, u[1], u[2]) =>
                    /\ jobs' = jobs
                    /\ response'.code = 0 ]_vars

\* C24 witness: with a job running, a FAILED update for an identifier that has
\* no row has returned.
C24_Witness ==
    /\ response = [code |-> 0, job_id |-> MaxJobs + 1, status |-> FAILED]
    /\ \E job_id \in Ids : jobs[job_id].status = RUNNING

\* C25: under every interleaving of worker runs, a step that changes the row
\* of a job is a step of a run of that job and of no other run, it leaves the
\* row of every other job as it was, and the row it leaves is the result of one
\* whole update_job_status call (status, timestamp and error_message together).
C25_WorkersKeepToTheirJob ==
    [][ \A job_id \in Ids :
            jobs'[job_id] # jobs[job_id] =>
                /\ \E t \in Tasks :
                        /\ tasks[t].job_id = job_id
                        /\ tasks'[t] # tasks[t]
                        /\ \A u \in Tasks \ {t} : tasks'[u] = tasks[u]
                /\ \A other \in Ids \ {job_id} : jobs'[other] = jobs[other]
                /\ \E error_message \in {None, jobs'[job_id].error_message} :
                        jobs' = update_job_status(jobs, job_id, jobs'[job_id].status,
                                                  error_message, clock) ]_vars

\* C25 witness: two runs interleaved: the second job was completed while the
\* transfer of the first, still running, is in flight.
C25_Witness ==
    /\ Len(jobs) >= 2
    /\ jobs[1].status = RUNNING
    /\ jobs[2].status = COMPLETED
    /\ \E t \in Tasks : tasks[t].job_id = 1 /\ tasks[t].pc = "transfer"

\* C26: submissions and runs never wait for other jobs: while fewer than
\* MaxConcurrent jobs were submitted a submission is accepted whatever the
\* others are doing, every task added is ready to start, and every run that has
\* not ended and is not inside its transfer can take its next step.
C26_NoAdmissionControl ==
    /\ Len(jobs) < MaxConcurrent =>
            ENABLED SubmitAccepted(MaxConcurrent, None, ExampleSymbols)
    /\ \A t \in Tasks :
            (~Ended(t) /\ tasks[t].pc # "transfer") => ENABLED Step(t)

\* C26 witness: all MaxConcurrent jobs are RUNNING at once, each inside its
\* transfer.
C26_Witness ==
    /\ Len(jobs) = MaxConcurrent
    /\ \A job_id \in Ids : jobs[job_id].status = RUNNING
    /\ \A job_id \in Ids : \E t \in Tasks : tasks[t].job_id = job_id /\ tasks[t].pc = "transfer"

\* The calls of datasets.download task t has made: those that returned or
\* raised, and the one in flight.
Calls(t) == Len(tasks[t].transfer) + (IF tasks[t].pc = "transfer" THEN 1 ELSE 0)

\* C27: the transfer is called at most once for a job: no run calls it twice,
\* no two runs of one job call it, a run that caught an exception is in its
\* handler or has ended, and the runs of a FAILED job are past their last write.
C27_TransferAtMostOnce ==
    /\ \A t \in Tasks : Calls(t) <= 1
    /\ \A t, u \in Tasks :
            (t # u /\ tasks[t].job_id = tasks[u].job_id) => Calls(t) + Calls(u) <= 1
    /\ \A t \in Tasks :
            tasks[t].error_msg # None =>
                tasks[t].pc \in {"set_failed", "notify_failed", "done", "raised"}
    /\ \A t \in Tasks :
            (tasks[t].job_id \in Ids /\ jobs[tasks[t].job_id].status = FAILED) =>
                tasks[t].pc \in {"notify_failed", "done", "raised"}

\* C27 witness: the run of one job ended after its transfer raised, the run of
\* another ended after mkdir failed without calling the transfer, and both jobs
\* are FAILED.
C27_Witness ==
    \E t, u \in Tasks :
        /\ Ended(t) /\ Ended(u)
        /\ tasks[t].transfer = << Some("disk full") >>
        /\ tasks[u].transfer = << >> /\ tasks[u].error_msg = Some(MkdirError)
        /\ jobs[tasks[t].job_id].status = FAILED
        /\ jobs[tasks[u].job_id].status = FAILED

\* The fields of a row that are set when it is created.
AsCreated(row) ==
    [ exchange    |-> row.exchange,
      data_types  |-> row.data_types,
      symbols     |-> row.symbols,
      start_date  |-> row.start_date,
      end_date    |-> row.end_date,
      output_path |-> row.output_path,
      created_at  |-> row.created_at,
      created_by  |-> row.created_by ]

\* C28: every step keeps every row, under its identifier, with exchange,
\* data_types, symbols, start_date, end_date, output_path, created_at and
\* created_by as they were; and so does every update_job_status call, whatever
\* status and error_message it is given.
C28_CreationFieldsFrozen ==
    [][ \A job_id \in Ids :
            /\ job_id \in DOMAIN jobs'
            /\ AsCreated(jobs'[job_id]) = AsCreated(jobs[job_id])
            /\ \A status \in JobStatus, error_message \in {None, Some(DbError)} :
                    LET updated == update_job_status(jobs, job_id, status, error_message, clock)
                    IN  /\ DOMAIN updated = DOMAIN jobs
                        /\ AsCreated(updated[job_id]) = AsCreated(jobs[job_id]) ]_vars

\* C28 witness: a job submitted with its own output_path has gone through a
\* whole run to FAILED and still carries that path.
C28_Witness ==
    \E job_id \in Ids :
        /\ jobs[job_id].status = FAILED
        /\ jobs[job_id].completed_at # None
        /\ jobs[job_id].output_path = "/data/custom"
        /\ \A t \in TasksOf(job_id) : Ended(t)

\* C29: a submission answered with a server error leaves the store as it was,
\* and every row in the store has a worker run scheduled for it.
C29_FailedSubmitLeavesNothing ==
    /\ [][ (SubmitFailed(MaxConcurrent, None) \/ SubmitNotScheduled(MaxConcurrent, None))
                => jobs' = jobs ]_vars
    /\ [](\A job_id \in Ids : TasksOf(job_id) # {})

====
